---- MODULE Spec2Model ----
(***************************************************************************)
(* Course-evaluation store (evaluation_db.py) and its HTTP query API       *)
(* (evaluation_api.py).                                                    *)
(*                                                                         *)
(* Text is modelled as a sequence of one-character strings, so that        *)
(* strip/lower/replace/count/startswith, float(), int() and the "{:d}"     *)
(* formatting are computed as the code computes them.  A float is an       *)
(* integer number of 10^-FracDigits units (4.5 is 45 when FracDigits = 1). *)
(***************************************************************************)
EXTENDS Integers, Sequences, FiniteSets, TLC

\* ---------------------------------------------------------------- bounds
MaxEvaluations == 2   \* Evaluation rows the store may hold
MaxRows == 2          \* data rows of one CSV file
FracDigits == 1       \* decimal digits kept of a float

\* ------------------------------------------------------------------ text
RECURSIVE Pow10(_)
Pow10(n) == IF n = 0 THEN 1 ELSE 10 * Pow10(n - 1)

Scale == Pow10(FracDigits)

Digits == <<"0", "1", "2", "3", "4", "5", "6", "7", "8", "9">>

IsDigit(c) == \E i \in 1..10 : Digits[i] = c

DigitVal(c) == (CHOOSE i \in 1..10 : Digits[i] = c) - 1

\* str.lower()
UpperCase ==
    <<"A", "B", "C", "D", "E", "F", "G", "H", "I", "J", "K", "L", "M", "N", "O",
      "P", "Q", "R", "S", "T", "U", "V", "W", "X", "Y", "Z", "Æ", "Ø", "Å">>
LowerCase ==
    <<"a", "b", "c", "d", "e", "f", "g", "h", "i", "j", "k", "l", "m", "n", "o",
      "p", "q", "r", "s", "t", "u", "v", "w", "x", "y", "z", "æ", "ø", "å">>

LowerChar(c) ==
    IF \E i \in 1..Len(UpperCase) : UpperCase[i] = c
    THEN LowerCase[CHOOSE i \in 1..Len(UpperCase) : UpperCase[i] = c]
    ELSE c

Lower(s) == [i \in 1..Len(s) |-> LowerChar(s[i])]

\* str.strip()
RECURSIVE LStrip(_)
LStrip(s) == IF s # <<>> /\ Head(s) = " " THEN LStrip(Tail(s)) ELSE s

RECURSIVE RStrip(_)
RStrip(s) ==
    IF s # <<>> /\ s[Len(s)] = " " THEN RStrip(SubSeq(s, 1, Len(s) - 1)) ELSE s

Strip(s) == RStrip(LStrip(s))

\* str.count(c) for a one-character c
Count(s, c) == Cardinality({i \in 1..Len(s) : s[i] = c})

\* str.replace(c, r) for a one-character c; r is a text (possibly empty)
RECURSIVE Replace(_, _, _)
Replace(s, c, r) ==
    IF s = <<>> THEN <<>>
    ELSE (IF Head(s) = c THEN r ELSE <<Head(s)>>) \o Replace(Tail(s), c, r)

\* str.startswith(p)
StartsWith(s, p) == Len(p) <= Len(s) /\ SubSeq(s, 1, Len(p)) = p

\* p in s
Contains(s, p) ==
    \E i \in 0..(Len(s) - Len(p)) : SubSeq(s, i + 1, i + Len(p)) = p

\* comparison of two texts as Python compares str, over the characters of
\* the question ids
CharOrder == <<".", "0", "1", "2", "3", "4", "5", "6", "7", "8", "9">>

Ord(c) == CHOOSE i \in 1..Len(CharOrder) : CharOrder[i] = c

RECURSIVE StrLess(_, _)
StrLess(a, b) ==
    IF b = <<>> THEN FALSE
    ELSE IF a = <<>> THEN TRUE
    ELSE IF Head(a) = Head(b) THEN StrLess(Tail(a), Tail(b))
    ELSE Ord(Head(a)) < Ord(Head(b))

\* ---------------------------------------------------------------- values
\* None / NaN, a float (in Scale units), an int and a text
Null == [t |-> "null"]
Num(v) == [t |-> "num", v |-> v]
IntV(n) == [t |-> "int", n |-> n]
Str(s) == [t |-> "str", s |-> s]
List(xs) == [t |-> "list", s |-> xs]

IsNull(x) == x.t = "null"

\* value of a digit string
RECURSIVE DigitsVal(_)
DigitsVal(s) ==
    IF s = <<>> THEN 0 ELSE 10 * DigitsVal(SubSeq(s, 1, Len(s) - 1)) + DigitVal(s[Len(s)])

AllDigits(s) == \A i \in 1..Len(s) : IsDigit(s[i])

Unsigned(s) == IF s # <<>> /\ Head(s) \in {"-", "+"} THEN Tail(s) ELSE s

Sign(s) == IF s # <<>> /\ Head(s) = "-" THEN -1 ELSE 1

\* the fraction digits f as Scale units (digits beyond FracDigits are not kept)
FracVal(f) ==
    IF Len(f) >= FracDigits THEN DigitsVal(SubSeq(f, 1, FracDigits))
    ELSE DigitsVal(f) * Pow10(FracDigits - Len(f))

\* float(text): [sign] digits [. digits], blanks around it ignored.  Null
\* stands for ValueError.  Exponents, "inf" and "nan" are not among the
\* modelled texts.
PyFloat(text) ==
    LET s == Strip(text)
        u == Unsigned(s)
        dot == IF Count(u, ".") = 1 THEN CHOOSE i \in 1..Len(u) : u[i] = "." ELSE 0
        ip == IF dot = 0 THEN u ELSE SubSeq(u, 1, dot - 1)
        fp == IF dot = 0 THEN <<>> ELSE SubSeq(u, dot + 1, Len(u))
    IN  IF Count(u, ".") > 1 \/ ~AllDigits(ip) \/ ~AllDigits(fp) \/ Len(ip) + Len(fp) = 0
        THEN Null
        ELSE Num(Sign(s) * (DigitsVal(ip) * Scale + FracVal(fp)))

\* int(text): [sign] digits, blanks around it ignored.  Null stands for
\* ValueError.
PyInt(text) ==
    LET s == Strip(text)
        u == Unsigned(s)
    IN  IF u = <<>> \/ ~AllDigits(u) THEN Null ELSE IntV(Sign(s) * DigitsVal(u))

\* int(x) of a float x (given in Scale units): truncation toward zero
TruncInt(v) == IF v >= 0 THEN v \div Scale ELSE -((-v) \div Scale)

\* round(n / d * 100) of Python 3: to the nearest integer, ties to even
RoundPct(n, d) ==
    LET num == IF d > 0 THEN 100 * n ELSE -(100 * n)
        den == IF d > 0 THEN d ELSE -d
        fl == num \div den
        twice == 2 * (num - fl * den)
    IN  IF twice < den THEN fl
        ELSE IF twice > den THEN fl + 1
        ELSE IF fl % 2 = 0 THEN fl ELSE fl + 1

\* format(n, "d")
RECURSIVE NatText(_)
NatText(n) == IF n < 10 THEN <<Digits[n + 1]>> ELSE NatText(n \div 10) \o <<Digits[(n % 10) + 1]>>

IntText(n) == IF n < 0 THEN <<"-">> \o NatText(-n) ELSE NatText(n)

\* ------------------------------------------------------- texts of the code
Emne == <<"E","m","n","e">>
AarCol == <<"Å","r">>
AntallSvarCol == <<"A","n","t","a","l","l"," ","s","v","a","r">>
AntallInvitertCol == <<"A","n","t","a","l","l"," ","i","n","v","i","t","e","r","t">>
SvarPctCol == <<"S","v","a","r","%">>

\* question_ids and question_labels of import_evaluations
question_ids ==
    << <<"1",".","1">>, <<"1",".","2">>, <<"1",".","3">>, <<"1",".","4">>,
       <<"1",".","5">>, <<"1",".","6">>, <<"2">> >>

question_labels ==
    << <<"F","o","r","v","e","n","t","n","i","n","g","e","r">>,
       <<"S","t","r","u","k","t","u","r"," ","o","g"," ","o","r","g","a","n","i","s","e","r","i","n","g">>,
       <<"F","o","r","e","l","e","s","n","i","n","g","e","r">>,
       <<"A","n","d","r","e"," ","l","æ","r","i","n","g","s","a","k","t","i","v","i","t","e","t","e","r">>,
       <<"O","p","p","f","ø","l","g","i","n","g",","," ","v","e","i","l","e","d","n","i","n","g"," ","o","g"," ","t","i","l","b","a","k","e","m","e","l","d","i","n","g">>,
       <<"O","p","p","l","e","v","d"," ","l","æ","r","i","n","g">>,
       <<"A","l","t"," ","i"," ","a","l","t">> >>

\* the cell texts import_evaluations skips as "not applicable"
NotApplicable ==
    { <<"i","k","k","e"," ","r","e","l","e","v","a","n","t">>,
      <<"i","k","k","e","-","r","e","l","e","v","a","n","t">>,
      <<"n","/","a">>, <<"n","a">> }

\* the header patterns of the answered, invited and percent columns
AnswerPatterns == { <<"a","n","t","a","l","l"," ","s","v","a","r">> }
InvitedPatterns ==
    { <<"a","n","t","a","l","l"," ","i","n","v","i","t","e","r","t">>,
      <<"a","n","t","a","l","l"," ","i","n","v","i","t","e","r","t","e">> }
PercentPatterns ==
    { <<"s","v","a","r","%">>, <<"s","v","a","r","p","r","o","s","e","n","t">> }

\* dict(zip(question_ids, question_labels))[qid]
LabelOf(qid) == question_labels[CHOOSE i \in 1..Len(question_ids) : question_ids[i] = qid]

\* f"{qid} {label}", the CSV column import_evaluations reads for qid
CsvColumn(qid) == qid \o <<" ">> \o LabelOf(qid)

\* ------------------------------------------------------------ pd.read_csv
\* A CSV file is [readable, header, rows]: the header's column names and, for
\* each data row, the text of each cell (<<>> for a blank cell).

\* the texts pandas reads as NaN (its default na_values), over the modelled
\* characters
NaValues ==
    { <<>>, <<"n","/","a">>, <<"N","/","A">>, <<"N","A">>, <<"n","a","n">>,
      <<"N","a","N">>, <<"n","u","l","l">>, <<"N","U","L","L">> }

\* an integer cell, and a number cell under decimal=','
IsCsvInt(text) == Unsigned(text) # <<>> /\ AllDigits(Unsigned(text))

IsCsvNumber(text) ==
    /\ Count(text, ".") = 0
    /\ Count(text, " ") = 0
    /\ ~IsNull(PyFloat(Replace(text, ",", <<".">>)))

\* the dtype pandas infers for column j: int64 when every cell is an integer,
\* float64 when every cell is a number or NaN, object otherwise
ColumnKind(csv, j) ==
    LET cells == {csv.rows[r][j] : r \in 1..Len(csv.rows)}
    IN  IF \A c \in cells : IsCsvInt(c) THEN "int"
        ELSE IF \A c \in cells : c \in NaValues \/ IsCsvNumber(c) THEN "float"
        ELSE "object"

CsvCell(kind, text) ==
    IF text \in NaValues THEN Null
    ELSE IF kind = "int" THEN PyInt(text)
    ELSE IF kind = "float" THEN PyFloat(Replace(text, ",", <<".">>))
    ELSE Str(text)

\* pd.read_csv(csv_file, sep=';', decimal=','): the DataFrame [columns, rows]
ReadCsv(csv) ==
    [columns |-> csv.header,
     rows |-> [r \in 1..Len(csv.rows) |->
                  [j \in 1..Len(csv.header) |->
                      CsvCell(ColumnKind(csv, j), csv.rows[r][j])]]]

HasColumn(columns, name) == \E j \in 1..Len(columns) : columns[j] = name

\* row[name], for a column the frame has
RowAt(df, r, name) ==
    df.rows[r][CHOOSE j \in 1..Len(df.columns) : df.columns[j] = name]

\* row.get(name, None)
RowGet(df, r, name) == IF HasColumn(df.columns, name) THEN RowAt(df, r, name) ELSE Null

\* the first column whose lower-cased name contains one of the patterns, or
\* Null (None)
FindColumn(columns, patterns) ==
    LET hits == {j \in 1..Len(columns) : \E p \in patterns : Contains(Lower(columns[j]), p)}
    IN  IF hits = {} THEN Null
        ELSE Str(columns[CHOOSE j \in hits : \A k \in hits : j <= k])

\* str(x) of a cell value
FracText(f, n) ==
    LET pad == [i \in 1..n |-> IF i <= n - Len(NatText(f)) THEN "0" ELSE NatText(f)[i - (n - Len(NatText(f)))]]
        last == IF \E i \in 1..n : pad[i] # "0"
                THEN CHOOSE i \in 1..n : pad[i] # "0" /\ \A k \in (i + 1)..n : pad[k] = "0"
                ELSE 1
    IN  SubSeq(pad, 1, last)

PyStr(x) ==
    IF x.t = "str" THEN x.s
    ELSE IF x.t = "int" THEN IntText(x.n)
    ELSE IF x.t = "null" THEN <<"n","a","n">>
    ELSE LET a == IF x.v < 0 THEN -x.v ELSE x.v
         IN  (IF x.v < 0 THEN <<"-">> ELSE <<>>)
               \o NatText(a \div Scale) \o <<".">> \o FracText(a % Scale, FracDigits)

\* ---------------------------------------------------------------- store
\* The five relations of init_db, each a sequence of rows in rowid order.
EmptyStore ==
    [Subject |-> <<>>, Question |-> <<>>, Evaluation |-> <<>>,
     EvaluationResult |-> <<>>, EvaluationStats |-> <<>>]

HasId(table, id) == \E i \in 1..Len(table) : table[i].id = id

\* a plain INSERT where the code has INSERT OR IGNORE
InsertAlways(table, row) == Append(table, row)

\* INSERT OR IGNORE on a relation whose primary key is id
InsertOrIgnore(table, row) == IF HasId(table, row.id) THEN table ELSE Append(table, row)

\* the catalogue rows, zip(question_ids, question_labels, range(1, n + 1))
CatalogueRow(i) == [id |-> question_ids[i], label |-> question_labels[i], display_order |-> i]

\* "Insert questions if not exist": the loop over the catalogue
RECURSIVE InsertQuestions(_, _)
InsertQuestions(table, i) ==
    IF i > Len(question_ids) THEN table
    ELSE InsertQuestions(InsertOrIgnore(table, CatalogueRow(i)), i + 1)

\* a "not applicable" cell stored as 0 where the code skips it
QuestionValueZero(value) ==
    IF IsNull(value) THEN Null
    ELSE IF value.t = "str" /\ Lower(Strip(value.s)) \in NotApplicable THEN Num(0)
    ELSE IF value.t = "str"
         THEN PyFloat(IF Count(value.s, ",") = 1 /\ Count(value.s, ".") > 1
                      THEN Replace(Replace(Strip(value.s), ".", <<>>), ",", <<".">>)
                      ELSE Replace(Strip(value.s), ",", <<".">>))
    ELSE IF value.t = "int" THEN Num(value.n * Scale)
    ELSE value

\* the value import_evaluations stores for a question cell, Null when the
\* cell is skipped
QuestionValue(value) ==
    IF IsNull(value) THEN Null
    ELSE IF value.t = "str" /\ Lower(Strip(value.s)) \in NotApplicable THEN Null
    ELSE IF value.t = "str"
         THEN PyFloat(IF Count(value.s, ",") = 1 /\ Count(value.s, ".") > 1
                      THEN Replace(Replace(Strip(value.s), ".", <<>>), ",", <<".">>)
                      ELSE Replace(Strip(value.s), ",", <<".">>))
    ELSE IF value.t = "int" THEN Num(value.n * Scale)
    ELSE value

\* answered / invited of a stats cell, Null when unknown
CountValue(col, value) ==
    IF IsNull(col) \/ IsNull(value) THEN Null
    ELSE IF value.t = "int" THEN value
    ELSE IF value.t = "num" THEN IntV(TruncInt(value.v))
    ELSE PyInt(Strip(Replace(Replace(PyStr(value), " ", <<>>), ",", <<".">>)))

\* response_percent of a stats cell
PercentValue(col, value) ==
    IF IsNull(col) \/ IsNull(value) THEN Null ELSE Str(Strip(PyStr(value)))

\* str(row['Emne']).strip()
SubjectId(df, r) == Strip(PyStr(RowAt(df, r, Emne)))

\* the loop over the questions ended by the first cell float() rejects (a
\* break where the code has continue)
ObservationsUntilFailure(df, r) ==
    LET cell(i) == RowGet(df, r, CsvColumn(question_ids[i]))
        rejected(i) == /\ ~IsNull(cell(i))
                       /\ ~(cell(i).t = "str" /\ Lower(Strip(cell(i).s)) \in NotApplicable)
                       /\ IsNull(QuestionValue(cell(i)))
    IN  SelectSeq([i \in 1..Len(question_ids) |->
                      [question_id |-> question_ids[i],
                       value |-> IF \E k \in 1..i : rejected(k) THEN Null
                                 ELSE QuestionValue(cell(i))]],
                  LAMBDA x : ~IsNull(x.value))

\* What "for qid in question_ids" inserts for CSV row r: the observations
\* [question_id, value] of the cells that are not skipped, in catalogue order
Observations(df, r) ==
    SelectSeq([i \in 1..Len(question_ids) |->
                  [question_id |-> question_ids[i],
                   value |-> QuestionValue(RowGet(df, r, CsvColumn(question_ids[i])))]],
              LAMBDA x : ~IsNull(x.value))

\* answered, invited and response_percent of CSV row r
StatsOfRow(df, r) ==
    LET answer_col == FindColumn(df.columns, AnswerPatterns)
        invited_col == FindColumn(df.columns, InvitedPatterns)
        percent_col == FindColumn(df.columns, PercentPatterns)
        cell(col) == IF IsNull(col) THEN Null ELSE RowGet(df, r, col.s)
    IN  [answered |-> CountValue(answer_col, cell(answer_col)),
         invited |-> CountValue(invited_col, cell(invited_col)),
         response_percent |-> PercentValue(percent_col, cell(percent_col))]

\* The file as import_evaluations reads it: whether read_csv succeeds,
\* whether row['Emne'] exists, and for each data row what the loop body
\* computes from it.
ParsedFile(csv) ==
    IF ~csv.readable THEN [readable |-> FALSE, hasEmne |-> FALSE, rows |-> <<>>, csv |-> csv]
    ELSE LET df == ReadCsv(csv)
             hasEmne == HasColumn(df.columns, Emne)
         IN  [readable |-> TRUE, hasEmne |-> hasEmne, csv |-> csv,
              rows |-> [r \in 1..Len(df.rows) |->
                           IF hasEmne
                           THEN [subject_id |-> SubjectId(df, r),
                                 observations |-> Observations(df, r),
                                 stats |-> StatsOfRow(df, r)]
                           ELSE [subject_id |-> <<>>, observations |-> <<>>,
                                 stats |-> StatsOfRow(df, r)]] \o <<>>]

\* the EvaluationResult rows of an evaluation, ids from nextId on
ResultRows(observations, evaluation_id, nextId) ==
    [i \in 1..Len(observations) |->
        [id |-> nextId + i - 1, evaluation_id |-> evaluation_id,
         question_id |-> observations[i].question_id, value |-> observations[i].value]]

\* the loop body with evaluation_id read before the Evaluation insert (the
\* rowid of the previous insert)
ProcessRowStaleId(db, row, year, term, withStats) ==
    LET evaluation_id == Len(db.Evaluation)
    IN  [Subject |-> InsertOrIgnore(db.Subject, [id |-> row.subject_id, name |-> Null]),
         Question |-> db.Question,
         Evaluation |-> Append(db.Evaluation,
                               [id |-> Len(db.Evaluation) + 1, subject_id |-> row.subject_id,
                                year |-> year, term |-> term]),
         EvaluationResult |->
             db.EvaluationResult
               \o ResultRows(row.observations, evaluation_id, Len(db.EvaluationResult) + 1),
         EvaluationStats |->
             IF withStats
             THEN Append(db.EvaluationStats,
                         [evaluation_id |-> evaluation_id, answered |-> row.stats.answered,
                          invited |-> row.stats.invited,
                          response_percent |-> row.stats.response_percent])
             ELSE db.EvaluationStats]

\* the loop body with an upsert of the Evaluation: a row of the same subject,
\* year and term is reused where the code inserts a new one
ProcessRowUpsert(db, row, year, term, withStats) ==
    LET same == {i \in 1..Len(db.Evaluation) :
                    /\ db.Evaluation[i].subject_id = row.subject_id
                    /\ db.Evaluation[i].year = year
                    /\ db.Evaluation[i].term = term}
        evaluation_id == IF same = {} THEN Len(db.Evaluation) + 1
                         ELSE db.Evaluation[CHOOSE i \in same : TRUE].id
    IN  [Subject |-> InsertOrIgnore(db.Subject, [id |-> row.subject_id, name |-> Null]),
         Question |-> db.Question,
         Evaluation |-> IF same = {}
                        THEN Append(db.Evaluation,
                                    [id |-> evaluation_id, subject_id |-> row.subject_id,
                                     year |-> year, term |-> term])
                        ELSE db.Evaluation,
         EvaluationResult |->
             db.EvaluationResult
               \o ResultRows(row.observations, evaluation_id, Len(db.EvaluationResult) + 1),
         EvaluationStats |->
             IF withStats
             THEN Append(db.EvaluationStats,
                         [evaluation_id |-> evaluation_id, answered |-> row.stats.answered,
                          invited |-> row.stats.invited,
                          response_percent |-> row.stats.response_percent])
             ELSE db.EvaluationStats]

\* one iteration of "for _, row in df.iterrows()".  withStats is FALSE when
\* the store raises on the EvaluationStats insert of this row.
ProcessRow(db, row, year, term, withStats) ==
    LET evaluation_id == Len(db.Evaluation) + 1
    IN  [Subject |-> InsertOrIgnore(db.Subject, [id |-> row.subject_id, name |-> Null]),
         Question |-> db.Question,
         Evaluation |-> Append(db.Evaluation,
                               [id |-> evaluation_id, subject_id |-> row.subject_id,
                                year |-> year, term |-> term]),
         EvaluationResult |->
             db.EvaluationResult
               \o ResultRows(row.observations, evaluation_id, Len(db.EvaluationResult) + 1),
         EvaluationStats |->
             IF withStats
             THEN Append(db.EvaluationStats,
                         [evaluation_id |-> evaluation_id, answered |-> row.stats.answered,
                          invited |-> row.stats.invited,
                          response_percent |-> row.stats.response_percent])
             ELSE db.EvaluationStats]

\* rows 1..n of the file, the store raising at row failAt (0: never)
RECURSIVE ProcessRows(_, _, _, _, _, _)
ProcessRows(db, rows, n, year, term, failAt) ==
    IF n = 0 THEN db
    ELSE ProcessRow(ProcessRows(db, rows, n - 1, year, term, failAt),
                    rows[n], year, term, n # failAt)

\* a connection in autocommit mode: every statement is committed as it runs
EndOfConnectionAutocommit(before, txn, committed) == txn

\* What the store holds once the connection of import_evaluations is gone:
\* the connection's changes when conn.commit() ran, and the store as it was
\* when the call raised before it (the open transaction is never committed).
EndOfConnection(before, txn, committed) == IF committed THEN txn ELSE before

\* import_evaluations(db_path, csv_file, year, term), from the committed
\* store `before`: the call's outcome.
\*   status    "ok", or the error the caller receives
\*   store     the committed store after the call
\*   imported  the number of CSV rows whose inserts were committed
\*   closed    conn.close() ran on every connection the call opened
import_evaluations(before, file, year, term, failAt) ==
    IF ~file.readable
    THEN [status |-> "DataError", store |-> before, imported |-> 0, closed |-> TRUE]
    ELSE LET n == Len(file.rows)
             seeded == [before EXCEPT !.Question = InsertQuestions(@, 1)]
         IN  IF n > 0 /\ ~file.hasEmne
             THEN [status |-> "KeyError",
                   store |-> EndOfConnection(before, seeded, FALSE),
                   imported |-> 0, closed |-> FALSE]
             ELSE IF failAt \in 1..n
             THEN [status |-> "StoreError",
                   store |-> EndOfConnection(before,
                                ProcessRows(seeded, file.rows, failAt, year, term, failAt),
                                FALSE),
                   imported |-> 0, closed |-> FALSE]
             ELSE [status |-> "ok",
                   store |-> EndOfConnection(before,
                                ProcessRows(seeded, file.rows, n, year, term, 0), TRUE),
                   imported |-> n, closed |-> TRUE]

\* ------------------------------------------------ get_subject_overview_df
\* The rows of the SELECT for subject_id: Evaluation JOIN Subject, LEFT JOIN
\* EvaluationResult, Question and EvaluationStats.
ResultsOfEvaluation(db, e) ==
    {i \in 1..Len(db.EvaluationResult) : db.EvaluationResult[i].evaluation_id = e.id}

StatsOf(db, e) ==
    IF \E i \in 1..Len(db.EvaluationStats) : db.EvaluationStats[i].evaluation_id = e.id
    THEN db.EvaluationStats[CHOOSE i \in 1..Len(db.EvaluationStats) :
                                db.EvaluationStats[i].evaluation_id = e.id]
    ELSE [evaluation_id |-> e.id, answered |-> Null, invited |-> Null,
          response_percent |-> Null]

\* the fetched row of Evaluation e and its EvaluationResult number k (k = 0:
\* the evaluation has no result, and the LEFT JOINs give NULLs)
JoinRow(db, e, k) ==
    LET known == k > 0 /\ HasId(db.Question, db.EvaluationResult[k].question_id)
        q == db.Question[CHOOSE i \in 1..Len(db.Question) :
                            db.Question[i].id = db.EvaluationResult[k].question_id]
        es == StatsOf(db, e)
    IN  [evaluation_id |-> e.id, year |-> e.year, term |-> e.term,
         question_id |-> IF known THEN Str(q.id) ELSE Null,
         question_label |-> IF known THEN Str(q.label) ELSE Null,
         display_order |-> IF known THEN q.display_order ELSE 0,
         value |-> IF k > 0 THEN db.EvaluationResult[k].value ELSE Null,
         answered |-> es.answered, invited |-> es.invited]

JoinRows(db, subject_id) ==
    LET evals == {i \in 1..Len(db.Evaluation) :
                     /\ db.Evaluation[i].subject_id = subject_id
                     /\ HasId(db.Subject, subject_id)}
    IN  UNION {IF ResultsOfEvaluation(db, db.Evaluation[i]) = {}
               THEN {JoinRow(db, db.Evaluation[i], 0)}
               ELSE {JoinRow(db, db.Evaluation[i], k) :
                        k \in ResultsOfEvaluation(db, db.Evaluation[i])}
               : i \in evals}

\* ORDER BY e.year DESC, q.display_order: a NULL display_order sorts first.
\* SQL leaves the order of rows with equal keys open; tie says whether such
\* rows come in ascending or descending order of their Evaluation.
FetchBefore(a, b, tie) ==
    \/ a.year > b.year
    \/ a.year = b.year /\ a.display_order < b.display_order
    \/ /\ a.year = b.year
       /\ a.display_order = b.display_order
       /\ IF tie = "asc" THEN a.evaluation_id < b.evaluation_id
          ELSE a.evaluation_id > b.evaluation_id

\* pd.read_sql_query: the frame, one record per fetched row
Fetch(db, subject_id, tie) ==
    LET rows == JoinRows(db, subject_id)
    IN  [i \in 1..Cardinality(rows) |->
            CHOOSE r \in rows : Cardinality({x \in rows : FetchBefore(x, r, tie)}) = i - 1]

\* sorted(xs) of a set of integers / of a set of texts
SortedInts(xs) ==
    [i \in 1..Cardinality(xs) |-> CHOOSE x \in xs : Cardinality({y \in xs : y < x}) = i - 1]

SortedTexts(xs) ==
    [i \in 1..Cardinality(xs) |->
        CHOOSE x \in xs : Cardinality({y \in xs : StrLess(y, x)}) = i - 1]

\* the filter keeping the question ids that start with a given text
FilterQuestionsPrefix(df, wanted) ==
    SelectSeq(df, LAMBDA r : ~IsNull(r.question_id)
                              /\ \E i \in 1..Len(wanted) :
                                    StartsWith(r.question_id.s, wanted[i]))

\* df[df["question_id"].isin(question_ids)]
FilterQuestions(df, wanted) ==
    SelectSeq(df, LAMBDA r : ~IsNull(r.question_id)
                              /\ \E i \in 1..Len(wanted) : wanted[i] = r.question_id.s)

\* the f-string of the response rate
SvarPct(answered, invited) ==
    IF ~IsNull(answered) /\ ~IsNull(invited) /\ invited.n # 0
    THEN Str(IntText(RoundPct(answered.n, invited.n)) \o <<" ", "%">>)
    ELSE Str(<<>>)

\* the labels in the order in which the questions first appear in
\* df.sort_values(["year", "question_id"]), where the code takes them in the
\* order of the groups
QuestionOrderFirstAppearance(df) ==
    LET ids == {df[i].question_id.s : i \in {k \in 1..Len(df) : ~IsNull(df[k].question_id)}}
        first(qid) == CHOOSE i \in 1..Len(df) :
                         /\ df[i].question_id = Str(qid)
                         /\ \A k \in 1..Len(df) :
                               df[k].question_id = Str(qid) =>
                                  \/ df[i].year < df[k].year
                                  \/ df[i].year = df[k].year /\ i <= k
        before(p, q) == \/ df[first(p)].year < df[first(q)].year
                        \/ df[first(p)].year = df[first(q)].year /\ StrLess(p, q)
        keys == [i \in 1..Cardinality(ids) |->
                    CHOOSE q \in ids : Cardinality({p \in ids : before(p, q)}) = i - 1]
        labels == [i \in 1..Len(keys) |-> df[first(keys[i])].question_label.s]
    IN  SelectSeq([i \in 1..Len(labels) |-> [at |-> i, label |-> labels[i]]],
                  LAMBDA x : \A k \in 1..(x.at - 1) : labels[k] # x.label)

\* the labels of the groups of df.sort_values(["year", "question_id"])
\* .groupby("question_id"): the groups come in ascending order of question_id
\* (rows without a question_id belong to no group), and a group's label is
\* that of its first row
QuestionOrder(df) ==
    LET ids == {df[i].question_id.s : i \in {k \in 1..Len(df) : ~IsNull(df[k].question_id)}}
        keys == SortedTexts(ids)
        first(qid) == CHOOSE i \in 1..Len(df) :
                         /\ df[i].question_id = Str(qid)
                         /\ \A k \in 1..Len(df) :
                               df[k].question_id = Str(qid) =>
                                  \/ df[i].year < df[k].year
                                  \/ df[i].year = df[k].year /\ i <= k
        labels == [i \in 1..Len(keys) |-> df[first(keys[i])].question_label.s]
    IN  SelectSeq([i \in 1..Len(labels) |-> [at |-> i, label |-> labels[i]]],
                  LAMBDA x : \A k \in 1..(x.at - 1) : labels[k] # x.label)

\* the first value of the year, whatever its question
FirstValueOfYear(row_df, q_label) == row_df[1].value

\* val.iloc[0] if not val.empty else None
FirstValue(row_df, q_label) ==
    LET hits == {i \in 1..Len(row_df) : row_df[i].question_label = Str(q_label)}
    IN  IF hits = {} THEN Null
        ELSE row_df[CHOOSE i \in hits : \A k \in hits : i <= k].value

\* the row_data of year y
OverviewRow(df, y, order, include_stats) ==
    LET row_df == SelectSeq(df, LAMBDA r : r.year = y)
        first == row_df[1]
    IN  <<IntV(y)>>
          \o [i \in 1..Len(order) |-> FirstValue(row_df, order[i].label)]
          \o (IF include_stats
              THEN <<first.answered, first.invited, SvarPct(first.answered, first.invited)>>
              ELSE <<>>)

EmptyTable == [columns |-> <<>>, rows |-> <<>>]

\* the overview without the second "if df.empty" (after the question filter)
OverviewTableUnchecked(fetched, include_stats, wanted) ==
    LET df == IF IsNull(wanted) THEN fetched ELSE FilterQuestions(fetched, wanted.s)
        years == SortedInts({df[i].year : i \in 1..Len(df)})
        order == QuestionOrder(df)
    IN  IF fetched = <<>> THEN EmptyTable
        ELSE [columns |-> <<AarCol>>
                            \o [i \in 1..Len(order) |-> order[i].label]
                            \o (IF include_stats
                                THEN <<AntallSvarCol, AntallInvitertCol, SvarPctCol>>
                                ELSE <<>>),
              rows |-> [i \in 1..Len(years) |->
                           OverviewRow(df, years[i], order, include_stats)]]

\* the overview with df["year"].unique() taken as it comes (the fetch order,
\* latest year first) where the code sorts it
OverviewTableUnsorted(fetched, include_stats, wanted) ==
    LET df == IF IsNull(wanted) THEN fetched ELSE FilterQuestions(fetched, wanted.s)
        sorted == SortedInts({df[i].year : i \in 1..Len(df)})
        years == [i \in 1..Len(sorted) |-> sorted[Len(sorted) + 1 - i]]
        order == QuestionOrder(df)
    IN  IF df = <<>> THEN EmptyTable
        ELSE [columns |-> <<AarCol>>
                            \o [i \in 1..Len(order) |-> order[i].label]
                            \o (IF include_stats
                                THEN <<AntallSvarCol, AntallInvitertCol, SvarPctCol>>
                                ELSE <<>>),
              rows |-> [i \in 1..Len(years) |->
                           OverviewRow(df, years[i], order, include_stats)]]

\* the DataFrame get_subject_overview_df returns once the query has run
OverviewTable(fetched, include_stats, wanted) ==
    LET df == IF IsNull(wanted) THEN fetched ELSE FilterQuestions(fetched, wanted.s)
        years == SortedInts({df[i].year : i \in 1..Len(df)})
        order == QuestionOrder(df)
    IN  IF df = <<>> THEN EmptyTable
        ELSE [columns |-> <<AarCol>>
                            \o [i \in 1..Len(order) |-> order[i].label]
                            \o (IF include_stats
                                THEN <<AntallSvarCol, AntallInvitertCol, SvarPctCol>>
                                ELSE <<>>),
              rows |-> [i \in 1..Len(years) |->
                           OverviewRow(df, years[i], order, include_stats)]]

\* get_subject_overview_df(db_path, subject_id, include_stats, question_ids):
\* [raised, table, closed].  The query raises when the store has no relations
\* yet, and conn.close() runs after pd.read_sql_query has returned.
get_subject_overview_df(hasSchema, db, subject_id, include_stats, wanted, tie) ==
    IF ~hasSchema THEN [raised |-> TRUE, table |-> EmptyTable, closed |-> FALSE]
    ELSE [raised |-> FALSE, closed |-> TRUE,
          table |-> OverviewTable(Fetch(db, subject_id, tie), include_stats, wanted)]

\* ------------------------------------------------------ evaluation_api.py
\* _parse_bool(value, default), value a text or Null (None)
parse_bool(value, default) ==
    IF IsNull(value) THEN default
    ELSE IF Lower(value.s) \in {<<"t","r","u","e">>, <<"t">>, <<"y","e","s">>, <<"y">>, <<"1">>}
         THEN TRUE
    ELSE IF Lower(value.s) \in {<<"f","a","l","s","e">>, <<"f">>, <<"n","o">>, <<"n">>, <<"0">>}
         THEN FALSE
    ELSE default

\* text.split(",")
RECURSIVE SplitComma(_)
SplitComma(text) ==
    IF Count(text, ",") = 0 THEN <<text>>
    ELSE LET at == CHOOSE i \in 1..Len(text) :
                      text[i] = "," /\ \A k \in 1..(i - 1) : text[k] # ","
         IN  <<SubSeq(text, 1, at - 1)>> \o SplitComma(SubSeq(text, at + 1, Len(text)))

\* [q.strip() for q in questions_param.split(",") if q.strip()], or None
ParseQuestions(questions_param) ==
    IF IsNull(questions_param) \/ questions_param.s = <<>> THEN Null
    ELSE List(SelectSeq([i \in 1..Len(SplitComma(questions_param.s)) |->
                             Strip(SplitComma(questions_param.s)[i])],
                        LAMBDA q : q # <<>>))

\* the indexes of the columns do_GET keeps: 'År', then for each question the
\* columns that start with "<q> " or equal q, then the stats columns
ColumnsToKeep(columns, questions, include_stats) ==
    LET idx(keep(_)) == SelectSeq([j \in 1..Len(columns) |-> j], keep)
        isAar(j) == columns[j] = AarCol
        RECURSIVE matches(_)
        matches(i) ==
            IF i > Len(questions) THEN <<>>
            ELSE LET hit(j) == StartsWith(columns[j], questions[i] \o <<" ">>)
                                 \/ columns[j] = questions[i]
                 IN  idx(hit) \o matches(i + 1)
        stat(name) == LET is(j) == columns[j] = name IN idx(is)
    IN  idx(isAar) \o matches(1)
          \o (IF include_stats
              THEN stat(AntallSvarCol) \o stat(AntallInvitertCol) \o stat(SvarPctCol)
              ELSE <<>>)

\* df[cols_to_keep]
SelectColumns(table, keep) ==
    [columns |-> [i \in 1..Len(keep) |-> table.columns[keep[i]]],
     rows |-> [r \in 1..Len(table.rows) |-> [i \in 1..Len(keep) |-> table.rows[r][keep[i]]]]]

\* EvaluationRequestHandler.do_GET for /api/subject/<subject_id>: the HTTP
\* status and the table that is rendered
do_GET(hasSchema, db, subject_id, include_stats_param, questions_param, tie) ==
    LET include_stats == parse_bool(include_stats_param, TRUE)
        questions == ParseQuestions(questions_param)
        got == get_subject_overview_df(hasSchema, db, subject_id, include_stats, Null, tie)
    IN  IF got.raised THEN [http |-> 500, table |-> EmptyTable]
        ELSE IF ~IsNull(questions) /\ questions.s # <<>>
        THEN [http |-> 200,
              table |-> SelectColumns(got.table,
                           ColumnsToKeep(got.table.columns, questions.s, include_stats))]
        ELSE [http |-> 200, table |-> got.table]

\* ---------------------------------------------------------------- inputs
\* The CSV files that are imported.  HeaderStd names the columns the code
\* reads; HeaderMin has one question column and the two counts; HeaderAlt
\* uses the other spellings found in exports ("2. Alt i alt" is the name the
\* docstring of import_evaluations gives); HeaderNoEmne lacks the 'Emne'
\* column.
HeaderStd ==
    << <<"E","m","n","e">>,
       <<"1",".","1"," ","F","o","r","v","e","n","t","n","i","n","g","e","r">>,
       <<"2"," ","A","l","t"," ","i"," ","a","l","t">>,
       <<"A","n","t","a","l","l"," ","s","v","a","r">>,
       <<"A","n","t","a","l","l"," ","i","n","v","i","t","e","r","t">>,
       <<"S","v","a","r","%">> >>

HeaderMin ==
    << <<"E","m","n","e">>,
       <<"1",".","1"," ","F","o","r","v","e","n","t","n","i","n","g","e","r">>,
       <<"A","n","t","a","l","l"," ","s","v","a","r">>,
       <<"A","n","t","a","l","l"," ","i","n","v","i","t","e","r","t">> >>

HeaderAlt ==
    << <<"E","m","n","e">>,
       <<"1",".","1"," ","F","o","r","v","e","n","t","n","i","n","g","e","r">>,
       <<"2","."," ","A","l","t"," ","i"," ","a","l","t">>,
       <<"A","n","t","a","l","l"," ","s","v","a","r">>,
       <<"A","n","t","a","l","l"," ","i","n","v","i","t","e","r","t","e">>,
       <<"S","v","a","r","p","r","o","s","e","n","t">> >>

HeaderNoEmne ==
    << <<"K","o","d","e">>,
       <<"1",".","1"," ","F","o","r","v","e","n","t","n","i","n","g","e","r">>,
       <<"2"," ","A","l","t"," ","i"," ","a","l","t">>,
       <<"A","n","t","a","l","l"," ","s","v","a","r">>,
       <<"A","n","t","a","l","l"," ","i","n","v","i","t","e","r","t">>,
       <<"S","v","a","r","%">> >>

AOS120 == <<"A","O","S","1","2","0">>
ECN170 == <<"E","C","N","1","7","0">>
BIO100 == <<"B","I","O","1","0","0">>

\* cells: Emne, question 1.1, question 2, answered, invited, percent
RowsStd ==
    << <<<<"A","O","S","1","2","0">>, <<"3">>, <<"3",",","5">>, <<"3","7">>, <<"5","0">>, <<"7","3"," ","%">>>>,
      <<<<" ","A","O","S","1","2","0">>, <<"I","k","k","e"," ","R","e","l","e","v","a","n","t">>, <<"4",",","5">>, <<"5">>, <<"-","1","0">>, <<>>>>,
      <<<<"E","C","N","1","7","0">>, <<"x">>, <<"2">>, <<"x">>, <<>>, <<"n","/","a">>>>,
      <<<<"A","O","S","1","2","0">>, <<>>, <<"n","a">>, <<"1"," ","0">>, <<"0">>, <<>>>> >>

RowsAlt ==
    << <<<<"A","O","S","1","2","0">>, <<"2">>, <<"4",",","5">>, <<"1">>, <<"8">>, <<"1","2",",","5"," ","%">>>> >>

\* cells: Emne, question 1.1, answered, invited
RowsMin ==
    << <<<<"A","O","S","1","2","0">>, <<"4",",","5">>, <<"3","0">>, <<"4","0">>>> >>

RowsOf(header) ==
    IF header = HeaderStd THEN RowsStd
    ELSE IF header = HeaderMin THEN RowsMin
    ELSE RowsAlt

\* the ways to pick n of k rows, in their order
Picks(k, n) == {s \in [1..n -> 1..k] : \A i \in 1..(n - 1) : s[i] < s[i + 1]}

\* an unreadable file, and for each header the files of 1..MaxRows of its
\* rows
CsvFiles ==
    {[readable |-> FALSE, header |-> <<>>, rows |-> <<>>]}
      \cup UNION {{[readable |-> TRUE, header |-> h,
                    rows |-> [i \in 1..Len(s) |-> RowsOf(h)[s[i]]]] :
                      s \in UNION {Picks(Len(RowsOf(h)), n) : n \in 1..MaxRows}}
                  : h \in {HeaderStd, HeaderMin, HeaderAlt, HeaderNoEmne}}

\* the files as read
ParsedFiles == {ParsedFile(csv) : csv \in CsvFiles}

\* year and term of an import
Periods ==
    {[year |-> 2022, term |-> "vår"], [year |-> 2023, term |-> "høst"]}

\* the subjects asked for, the question_ids lists given to
\* get_subject_overview_df and the query parameters given to the API
AskedSubjects == {AOS120, ECN170, BIO100}
AskedQuestionIds == {Null, List(<<<<"1",".","1">>>>), List(<<<<"1">>>>)}
AskedQuestionsParams == {Null, Str(<<"1",".","1">>), Str(<<"2",","," ","1",".","1">>)}
AskedStatsParams == {Null, Str(<<"F","a","l","s","e">>)}
TieOrders == {"asc", "desc"}

\* ----------------------------------------------------------------- state
VARIABLES
    schema,            \* the store has the relations of init_db
    Subject, Question, Evaluation, EvaluationResult, EvaluationStats,
    source,            \* history: for each Evaluation, the CSV header and row it came from
    call               \* the last call and what it returned

vars == <<schema, Subject, Question, Evaluation, EvaluationResult, EvaluationStats,
          source, call>>

Store ==
    [Subject |-> Subject, Question |-> Question, Evaluation |-> Evaluation,
     EvaluationResult |-> EvaluationResult, EvaluationStats |-> EvaluationStats]

SetStore(db) ==
    /\ Subject' = db.Subject
    /\ Question' = db.Question
    /\ Evaluation' = db.Evaluation
    /\ EvaluationResult' = db.EvaluationResult
    /\ EvaluationStats' = db.EvaluationStats

Init ==
    /\ schema = FALSE
    /\ Subject = <<>>
    /\ Question = <<>>
    /\ Evaluation = <<>>
    /\ EvaluationResult = <<>>
    /\ EvaluationStats = <<>>
    /\ source = <<>>
    /\ call = [op |-> "none"]

\* A query reads the store and changes nothing: the calls that follow it find
\* the store as the calls before it left it.  The model therefore follows
\* each sequence of init_db and import calls by one query.
Queried == call.op \in {"overview", "api"}

\* init_db(db_path), the "init" command
InitDb ==
    /\ ~Queried
    /\ schema' = TRUE
    /\ call' = [op |-> "init_db"]
    /\ UNCHANGED <<Subject, Question, Evaluation, EvaluationResult, EvaluationStats, source>>

\* import_evaluations(db_path, csv_file, year, term); failAt > 0: the store
\* raises while row failAt is written
Import ==
    \E file \in ParsedFiles, p \in Periods, failAt \in 0..MaxRows :
        /\ ~Queried
        /\ failAt <= Len(file.csv.rows)
        /\ \E out \in {import_evaluations(Store, file, p.year, p.term, failAt)} :
               /\ Len(out.store.Evaluation) <= MaxEvaluations
               /\ schema' = TRUE
               /\ SetStore(out.store)
               /\ source' = source \o [r \in 1..out.imported |->
                                          [header |-> file.csv.header,
                                           cells |-> file.csv.rows[r]]]
               /\ call' = [op |-> "import", status |-> out.status,
                           imported |-> out.imported, closed |-> out.closed]

\* get_subject_overview_df(db_path, subject_id, include_stats, question_ids)
Overview ==
    \E subject_id \in AskedSubjects, include_stats \in BOOLEAN,
       wanted \in AskedQuestionIds, tie \in TieOrders :
        /\ ~Queried
        /\ \E out \in {get_subject_overview_df(schema, Store, subject_id, include_stats,
                                                wanted, tie)} :
               call' = [op |-> "overview", subject_id |-> subject_id,
                        include_stats |-> include_stats, question_ids |-> wanted,
                        raised |-> out.raised, closed |-> out.closed,
                        table |-> out.table]
        /\ UNCHANGED <<schema, Subject, Question, Evaluation, EvaluationResult,
                       EvaluationStats, source>>

\* GET /api/subject/<subject_id>?include_stats=..&questions=..
ApiGet ==
    \E subject_id \in AskedSubjects, include_stats \in AskedStatsParams,
       questions \in AskedQuestionsParams, tie \in TieOrders :
        /\ ~Queried
        /\ \E out \in {do_GET(schema, Store, subject_id, include_stats, questions, tie)} :
               call' = [op |-> "api", subject_id |-> subject_id,
                        include_stats |-> include_stats, questions |-> questions,
                        http |-> out.http, table |-> out.table]
        /\ UNCHANGED <<schema, Subject, Question, Evaluation, EvaluationResult,
                       EvaluationStats, source>>

Next == InitDb \/ Import \/ Overview \/ ApiGet

Spec == Init /\ [][Next]_vars

\* ----------------------------------------------------------- properties
\* What the properties read off the store and off the table of the last
\* query.

\* the Evaluation rows of a subject in a year
EvaluationsOf(subject_id, y) ==
    {i \in 1..Len(Evaluation) :
        Evaluation[i].subject_id = subject_id /\ Evaluation[i].year = y}

\* the EvaluationResult rows of Evaluation number i for question qid
ResultsFor(i, qid) ==
    {k \in 1..Len(EvaluationResult) :
        /\ EvaluationResult[k].evaluation_id = Evaluation[i].id
        /\ EvaluationResult[k].question_id = qid}

\* the values the imports wrote for (subject, year, question)
WrittenValues(subject_id, y, qid) ==
    {EvaluationResult[k].value :
        k \in UNION {ResultsFor(i, qid) : i \in EvaluationsOf(subject_id, y)}}

\* the table's rows of year y, and its columns of question qid (named by the
\* label, or by "<code> <label>")
RowsOfYear(table, y) ==
    {r \in 1..Len(table.rows) :
        \E j \in 1..Len(table.columns) :
            table.columns[j] = AarCol /\ table.rows[r][j] = IntV(y)}

QuestionColumns(table, qid) ==
    {j \in 1..Len(table.columns) : table.columns[j] \in {LabelOf(qid), CsvColumn(qid)}}

\* the cell of a row under the column of that name (Null: no such column)
CellNamed(table, r, name) ==
    IF HasColumn(table.columns, name)
    THEN table.rows[r][CHOOSE j \in 1..Len(table.columns) : table.columns[j] = name]
    ELSE Null

\* the last call was get_subject_overview_df without a question filter, and
\* it returned
OverviewOfAll ==
    /\ call.op = "overview"
    /\ ~call.raised
    /\ IsNull(call.question_ids)

\* the 4.5 of the CSV text "4,5"
FourAndAHalf == Num(45 * Pow10(FracDigits - 1))

\* C1 as stated: every value an import wrote for (subject, year, question)
\* is in the overview of the subject, in the row of the year and the column
\* of the question.
C1_RoundTrip ==
    OverviewOfAll =>
        \A i \in 1..Len(Evaluation), k \in 1..Len(EvaluationResult) :
            (/\ Evaluation[i].subject_id = call.subject_id
             /\ EvaluationResult[k].evaluation_id = Evaluation[i].id) =>
                \E r \in RowsOfYear(call.table, Evaluation[i].year),
                   j \in QuestionColumns(call.table, EvaluationResult[k].question_id) :
                    call.table.rows[r][j] = EvaluationResult[k].value

\* C1 (amended): for every (subject, year, question) an import wrote a value
\* for, the overview of the subject has exactly one row of that year and one
\* column of that question, and the cell holds, unchanged, one of the values
\* written for that subject, year and question: the value itself when one
\* Evaluation of the year has one, the first fetched when several have.
C1_RoundTripFirstWins ==
    OverviewOfAll =>
        \A i \in 1..Len(Evaluation), k \in 1..Len(EvaluationResult) :
            (/\ Evaluation[i].subject_id = call.subject_id
             /\ EvaluationResult[k].evaluation_id = Evaluation[i].id) =>
                LET y == Evaluation[i].year
                    qid == EvaluationResult[k].question_id
                IN  /\ Cardinality(RowsOfYear(call.table, y)) = 1
                    /\ Cardinality(QuestionColumns(call.table, qid)) = 1
                    /\ \A r \in RowsOfYear(call.table, y),
                          j \in QuestionColumns(call.table, qid) :
                           call.table.rows[r][j] \in WrittenValues(call.subject_id, y, qid)

\* C1 witness: an overview of a subject with two questions answered in one
\* year and another value in another year, every value in its cell.
C1_Witness ==
    /\ OverviewOfAll
    /\ call.subject_id = AOS120
    /\ Len(call.table.rows) = 2
    /\ Cardinality({EvaluationResult[k].question_id : k \in 1..Len(EvaluationResult)}) = 2
    /\ C1_RoundTrip

\* C2 as stated: a single CSV row AOS120; 1.1 = 4,5; Antall svar = 30;
\* Antall invitert = 40, imported into an empty store with year 2023 and term
\* 'høst', makes the overview of AOS120 the one row År = 2023,
\* '1.1 Forventninger' = 4.5, Antall svar = 30, Antall invitert = 40,
\* Svar% = '75 %'.
C2_Scenario ==
    (/\ OverviewOfAll
     /\ call.include_stats
     /\ call.subject_id = AOS120
     /\ source = <<[header |-> HeaderMin,
                    cells |-> <<AOS120, <<"4", ",", "5">>, <<"3", "0">>, <<"4", "0">>>>]>>
     /\ Len(Evaluation) = 1
     /\ Evaluation[1].year = 2023
     /\ Evaluation[1].term = "høst") =>
        call.table =
            [columns |-> <<AarCol, CsvColumn(<<"1", ".", "1">>), AntallSvarCol,
                           AntallInvitertCol, SvarPctCol>>,
             rows |-> <<<<IntV(2023), FourAndAHalf, IntV(30), IntV(40),
                          Str(<<"7", "5", " ", "%">>)>>>>]

\* the CSV cell of question qid in the row Evaluation number i came from is
\* missing, blank or a "not applicable" sentinel (any case)
AbsentCell(i, qid) ==
    LET header == source[i].header
        cell == source[i].cells[CHOOSE j \in 1..Len(header) : header[j] = CsvColumn(qid)]
    IN  \/ ~HasColumn(header, CsvColumn(qid))
        \/ cell = <<>>
        \/ Lower(cell) \in NotApplicable

\* C3 as stated: a missing, blank or "not applicable" question cell leaves no
\* EvaluationResult row for that (evaluation, question), and in the overview
\* of the subject the year has a row whose cell for that question is blank.
C3_AbsentIsBlank ==
    \A i \in 1..Len(Evaluation), n \in 1..Len(question_ids) :
        AbsentCell(i, question_ids[n]) =>
            /\ ResultsFor(i, question_ids[n]) = {}
            /\ (OverviewOfAll /\ call.subject_id = Evaluation[i].subject_id) =>
                  /\ RowsOfYear(call.table, Evaluation[i].year) # {}
                  /\ \A r \in RowsOfYear(call.table, Evaluation[i].year),
                        j \in QuestionColumns(call.table, question_ids[n]) :
                         IsNull(call.table.rows[r][j])

\* C3 (amended): a missing, blank or "not applicable" question cell leaves no
\* EvaluationResult row for that (evaluation, question); in the overview of
\* the subject the year has a row, and its cell for that question is blank
\* (or the table has no column for the question) unless another Evaluation of
\* the same subject and year has a value for the question, and then the cell
\* holds such a value - never a 0 that no import wrote.
C3_AbsentIsBlankUnlessDuplicate ==
    \A i \in 1..Len(Evaluation), n \in 1..Len(question_ids) :
        AbsentCell(i, question_ids[n]) =>
            /\ ResultsFor(i, question_ids[n]) = {}
            /\ (OverviewOfAll /\ call.subject_id = Evaluation[i].subject_id) =>
                  LET y == Evaluation[i].year
                      written == WrittenValues(call.subject_id, y, question_ids[n])
                  IN  /\ RowsOfYear(call.table, y) # {}
                      /\ \A r \in RowsOfYear(call.table, y),
                            j \in QuestionColumns(call.table, question_ids[n]) :
                             IF written = {} THEN IsNull(call.table.rows[r][j])
                             ELSE call.table.rows[r][j] \in written

\* C3 witness: the overview has a column for a question, and the row of a
\* year whose only Evaluation had a "not applicable" cell for it is blank
\* there.
C3_Witness ==
    /\ OverviewOfAll
    /\ \E i \in 1..Len(Evaluation) :
          /\ Evaluation[i].subject_id = call.subject_id
          /\ HasColumn(source[i].header, CsvColumn(<<"1", ".", "1">>))
          /\ Lower(source[i].cells[2]) \in NotApplicable
          /\ QuestionColumns(call.table, <<"1", ".", "1">>) # {}
          /\ \A r \in RowsOfYear(call.table, Evaluation[i].year),
                j \in QuestionColumns(call.table, <<"1", ".", "1">>) :
                 IsNull(call.table.rows[r][j])
          /\ RowsOfYear(call.table, Evaluation[i].year) # {}

\* C4 as stated: in every overview row built with include_stats, Svar% is
\* round(answered / invited * 100) followed by ' %' exactly when answered and
\* invited are both known and invited > 0, and the empty text otherwise.
C4_SvarPct ==
    (call.op = "overview" /\ ~call.raised /\ call.include_stats) =>
        \A r \in 1..Len(call.table.rows) :
            LET answered == CellNamed(call.table, r, AntallSvarCol)
                invited == CellNamed(call.table, r, AntallInvitertCol)
            IN  CellNamed(call.table, r, SvarPctCol) =
                    IF ~IsNull(answered) /\ ~IsNull(invited) /\ invited.n > 0
                    THEN Str(IntText(RoundPct(answered.n, invited.n)) \o <<" ", "%">>)
                    ELSE Str(<<>>)

\* question qid has data for the subject: an import wrote a value for it
HasData(subject_id, qid) ==
    \E i \in 1..Len(Evaluation) :
        Evaluation[i].subject_id = subject_id /\ ResultsFor(i, qid) # {}

\* C5 as stated: GET /api/subject/<id>?questions=1.1 returns a table whose
\* columns are 'År', the column of question 1.1 when the subject has data for
\* it, and, when include_stats is true, Antall svar, Antall invitert and
\* Svar%, and no other column.
C5_ApiQuestionSelection ==
    (/\ call.op = "api"
     /\ call.http = 200
     /\ call.questions = Str(<<"1", ".", "1">>)
     /\ call.table.rows # <<>>) =>
        LET one == <<"1", ".", "1">>
            stats == IF parse_bool(call.include_stats, TRUE)
                     THEN {AntallSvarCol, AntallInvitertCol, SvarPctCol}
                     ELSE {}
            columns == {call.table.columns[j] : j \in 1..Len(call.table.columns)}
        IN  /\ columns \subseteq {AarCol, LabelOf(one), CsvColumn(one)} \cup stats
            /\ {AarCol} \cup stats \subseteq columns
            /\ HasData(call.subject_id, one) => QuestionColumns(call.table, one) # {}

\* the Question relation is the catalogue: the 7 ids, each once
IsCatalogue(table) ==
    /\ Len(table) = Len(question_ids)
    /\ \A n \in 1..Len(question_ids) :
          Cardinality({k \in 1..Len(table) : table[k].id = question_ids[n]}) = 1

\* C6 as stated: after any number (>= 1) of import_evaluations calls the
\* Question relation holds exactly the 7 catalogue ids, each once, and no
\* call changes an existing Question row.
C6_CatalogueAfterAnyImport ==
    [][/\ call'.op = "import" => IsCatalogue(Question')
       /\ \A k \in 1..Len(Question) : k <= Len(Question') /\ Question'[k] = Question[k]]_vars

\* C6 (amended): after any number of import_evaluations calls of which at
\* least one succeeded, the Question relation holds exactly the 7 catalogue
\* ids, each once (a call that fails before any has succeeded leaves the
\* relation empty), and no call changes an existing Question row.
C6_CatalogueAfterImport ==
    [][/\ (call'.op = "import" /\ call'.status = "ok") => IsCatalogue(Question')
       /\ IsCatalogue(Question) => Question' = Question
       /\ Question' = <<>> \/ IsCatalogue(Question')
       /\ \A k \in 1..Len(Question) : k <= Len(Question') /\ Question'[k] = Question[k]]_vars

\* C6 witness: a second import succeeded on a store that held the catalogue,
\* and the catalogue rows are those the code lists.
C6_Witness ==
    /\ call.op = "import"
    /\ call.status = "ok"
    /\ call.imported = 1
    /\ Len(Evaluation) = 2
    /\ Question = [n \in 1..Len(question_ids) |-> CatalogueRow(n)]

\* C7: every EvaluationResult row and every EvaluationStats row references
\* an existing Evaluation, every EvaluationResult references a Question of
\* the catalogue, and every Evaluation references an existing Subject, after
\* any sequence of successful and failed imports.
C7_ReferentialIntegrity ==
    /\ \A k \in 1..Len(EvaluationResult) :
          /\ HasId(Evaluation, EvaluationResult[k].evaluation_id)
          /\ HasId(Question, EvaluationResult[k].question_id)
          /\ \E n \in 1..Len(question_ids) : question_ids[n] = EvaluationResult[k].question_id
    /\ \A k \in 1..Len(EvaluationStats) :
          HasId(Evaluation, EvaluationStats[k].evaluation_id)
    /\ \A i \in 1..Len(Evaluation) : HasId(Subject, Evaluation[i].subject_id)

\* C7 witness: a store with results and stats of two imports, the last call
\* an import that failed while writing its rows.
C7_Witness ==
    /\ call.op = "import"
    /\ call.status = "StoreError"
    /\ Len(Evaluation) = 2
    /\ Len(EvaluationResult) >= 2
    /\ Len(EvaluationStats) = 2

\* C8: a successful import of a CSV with n data rows adds exactly n new
\* Evaluation rows and exactly one EvaluationStats row for each of them,
\* whatever the store holds, and replaces or merges no Evaluation row it
\* found (so k imports of one CSV leave k rows for its subject, year, term).
C8_NoUpsert ==
    [][(call'.op = "import" /\ call'.status = "ok") =>
          /\ Len(Evaluation') = Len(Evaluation) + call'.imported
          /\ SubSeq(Evaluation', 1, Len(Evaluation)) = Evaluation
          /\ \A i, k \in 1..Len(Evaluation') :
                Evaluation'[i].id = Evaluation'[k].id => i = k
          /\ SubSeq(EvaluationStats', 1, Len(EvaluationStats)) = EvaluationStats
          /\ \A i \in (Len(Evaluation) + 1)..Len(Evaluation') :
                Cardinality({k \in 1..Len(EvaluationStats') :
                                EvaluationStats'[k].evaluation_id = Evaluation'[i].id}) = 1]_vars

\* C8 witness: the same CSV row imported twice for the same year and term:
\* two Evaluation rows of that subject, year and term.
C8_Witness ==
    /\ call.op = "import"
    /\ call.status = "ok"
    /\ call.imported = 1
    /\ Len(Evaluation) = 2
    /\ Evaluation[1].id # Evaluation[2].id
    /\ Evaluation[1].subject_id = Evaluation[2].subject_id
    /\ Evaluation[1].year = Evaluation[2].year
    /\ Evaluation[1].term = Evaluation[2].term
    /\ source[1] = source[2]

\* the subject of the last query has no Evaluation row, or the question
\* filter of the query leaves no observation of the subject
NothingToShow ==
    \/ \A i \in 1..Len(Evaluation) : Evaluation[i].subject_id # call.subject_id
    \/ /\ ~IsNull(call.question_ids)
       /\ \A i \in 1..Len(Evaluation), n \in 1..Len(call.question_ids.s) :
             Evaluation[i].subject_id = call.subject_id =>
                ResultsFor(i, call.question_ids.s[n]) = {}

\* C9 as stated: get_subject_overview_df returns an empty table and raises
\* nothing when the subject is unknown or has no Evaluation row, and when the
\* question filter eliminates every observation.
C9_EmptyNotError ==
    (call.op = "overview" /\ NothingToShow) => (~call.raised /\ call.table = EmptyTable)

\* C9 (amended): in a store whose relations exist (init_db or an
\* import_evaluations call has run), get_subject_overview_df returns an empty
\* table and raises nothing when the subject is unknown or has no Evaluation
\* row, and when the question filter eliminates every observation.
C9_EmptyNotErrorOnceInitialised ==
    (call.op = "overview" /\ schema /\ NothingToShow) =>
        (~call.raised /\ call.table = EmptyTable)

\* C9 witness: the subject has observations, none of a question the filter
\* names, and the overview is the empty table.
C9_Witness ==
    /\ call.op = "overview"
    /\ ~IsNull(call.question_ids)
    /\ \E i \in 1..Len(Evaluation) :
          /\ Evaluation[i].subject_id = call.subject_id
          /\ \E k \in 1..Len(EvaluationResult) :
                EvaluationResult[k].evaluation_id = Evaluation[i].id
    /\ NothingToShow
    /\ ~call.raised
    /\ call.table = EmptyTable

\* C10: a failed import_evaluations call (the store raising while a row is
\* written, or an exception while a row is handled) returns one error and
\* leaves the Subject, Evaluation, EvaluationResult and EvaluationStats
\* relations as they were: no row of the batch, every earlier row unchanged.
C10_AllOrNothing ==
    [][(call'.op = "import" /\ call'.status # "ok") =>
          /\ call'.status \in {"DataError", "KeyError", "StoreError"}
          /\ Subject' = Subject
          /\ Evaluation' = Evaluation
          /\ EvaluationResult' = EvaluationResult
          /\ EvaluationStats' = EvaluationStats]_vars

\* C10 witness: the store raised while a row of the file was written, after
\* an earlier import had succeeded.
C10_Witness ==
    /\ call.op = "import"
    /\ call.status = "StoreError"
    /\ call.imported = 0
    /\ Len(Evaluation) >= 1
    /\ Len(EvaluationStats) = Len(Evaluation)

\* C11: every store connection import_evaluations or get_subject_overview_df
\* opens is closed when the call ends, on the normal return and on every
\* error path (CSV unreadable, no 'Emne' column, store error during an
\* insert or the query).
C11_ConnectionRelease ==
    call.op \in {"import", "overview"} => call.closed

\* question id qid starts with one of the texts of the filter / is one of them
IsPrefixOfSome(wanted, qid) == \E n \in 1..Len(wanted) : StartsWith(qid, wanted[n])

IsOneOf(wanted, qid) == \E n \in 1..Len(wanted) : wanted[n] = qid

\* the table shows exactly the observations of the subject that keeps(..)
\* keeps: a question has a column exactly when an observation of it is kept,
\* a year has a row exactly when an observation of that year is kept, and a
\* cell is filled exactly when an observation of its year and question is
\* kept
FilterShows(table, subject_id, wanted, keeps(_, _)) ==
    LET kept(y, qid) ==
            /\ keeps(wanted, qid)
            /\ \E i \in EvaluationsOf(subject_id, y) : ResultsFor(i, qid) # {}
        years == {Evaluation[i].year : i \in 1..Len(Evaluation)}
        qids == {question_ids[n] : n \in 1..Len(question_ids)}
    IN  /\ \A qid \in qids :
              QuestionColumns(table, qid) # {} <=> \E y \in years : kept(y, qid)
        /\ \A y \in years :
              RowsOfYear(table, y) # {} <=> \E qid \in qids : kept(y, qid)
        /\ \A y \in years, qid \in qids :
              \A r \in RowsOfYear(table, y), j \in QuestionColumns(table, qid) :
                  ~IsNull(table.rows[r][j]) <=> kept(y, qid)

\* the last call was get_subject_overview_df with a question filter, and it
\* returned
OverviewFiltered ==
    /\ call.op = "overview"
    /\ ~call.raised
    /\ ~IsNull(call.question_ids)

\* C12 as stated: with a question filter, get_subject_overview_df keeps
\* exactly the observations whose question id starts with one of the given
\* prefixes (the filter {'1'} keeps questions 1.1 to 1.6), and drops all
\* others.
C12_FilterByPrefix ==
    OverviewFiltered =>
        FilterShows(call.table, call.subject_id, call.question_ids.s, IsPrefixOfSome)

\* C12 (amended): with a question filter, get_subject_overview_df keeps
\* exactly the observations whose question id is equal to one of the given
\* ids (the filter {'1'} keeps nothing, {'1.1'} keeps question 1.1), and
\* drops all others.
C12_FilterByExactId ==
    OverviewFiltered =>
        FilterShows(call.table, call.subject_id, call.question_ids.s, IsOneOf)

\* C12 witness: the subject has observations of questions 1.1 and 2, the
\* filter names 1.1, and the overview has the column of 1.1 and not that of 2.
C12_Witness ==
    /\ OverviewFiltered
    /\ call.question_ids = List(<<<<"1", ".", "1">>>>)
    /\ HasData(call.subject_id, <<"1", ".", "1">>)
    /\ HasData(call.subject_id, <<"2">>)
    /\ call.table.rows # <<>>
    /\ QuestionColumns(call.table, <<"1", ".", "1">>) # {}
    /\ QuestionColumns(call.table, <<"2">>) = {}

\* the questions the overview of the last call has observations of
ShownQuestions ==
    {q \in {question_ids[n] : n \in 1..Len(question_ids)} :
        /\ HasData(call.subject_id, q)
        /\ IsNull(call.question_ids) \/ IsOneOf(call.question_ids.s, q)}

\* the first year in which the subject of the last call has an observation
\* of question q
FirstYearOf(q) ==
    CHOOSE y \in {Evaluation[i].year : i \in 1..Len(Evaluation)} :
        /\ \E i \in EvaluationsOf(call.subject_id, y) : ResultsFor(i, q) # {}
        /\ \A i \in 1..Len(Evaluation) :
              (Evaluation[i].subject_id = call.subject_id /\ ResultsFor(i, q) # {}) =>
                  y <= Evaluation[i].year

\* q comes before p when the observations are sorted by (year, question_id)
\* and each question is placed where it first appears
AppearsBefore(q, p) ==
    \/ FirstYearOf(q) < FirstYearOf(p)
    \/ FirstYearOf(q) = FirstYearOf(p) /\ StrLess(q, p)

\* the columns of the last overview are 'År', the labels of the shown
\* questions in the order before(..), and the stats columns when asked for
ColumnsInOrder(before(_, _)) ==
    LET qs == ShownQuestions
        ordered == [i \in 1..Cardinality(qs) |->
                       CHOOSE q \in qs : Cardinality({p \in qs : before(p, q)}) = i - 1]
    IN  call.table.columns =
            <<AarCol>> \o [i \in 1..Len(ordered) |-> LabelOf(ordered[i])]
              \o (IF call.include_stats
                  THEN <<AntallSvarCol, AntallInvitertCol, SvarPctCol>>
                  ELSE <<>>)

\* the last call was get_subject_overview_df and it returned a table with rows
OverviewWithRows ==
    /\ call.op = "overview"
    /\ ~call.raised
    /\ call.table.rows # <<>>

AarOfRows(table) == [r \in 1..Len(table.rows) |-> CellNamed(table, r, AarCol)]

\* the rows of the table are in strictly ascending order of 'År', one row for
\* each of the years
RowPerYear(table, years) ==
    LET aar == AarOfRows(table)
    IN  /\ \A r \in 1..Len(aar) : aar[r] \in {IntV(y) : y \in years}
        /\ \A y \in years : \E r \in 1..Len(aar) : aar[r] = IntV(y)
        /\ \A r \in 1..(Len(aar) - 1) : aar[r].n < aar[r + 1].n

\* the years in which the subject of the last call has an Evaluation
YearsOfSubject ==
    {Evaluation[i].year :
        i \in {k \in 1..Len(Evaluation) : Evaluation[k].subject_id = call.subject_id}}

\* C14 as stated: the overview of a subject has exactly one row per distinct
\* year in which the subject has an Evaluation, however many terms or
\* duplicate evaluations the year has, in strictly ascending order of 'År'.
C14_RowPerYear ==
    (call.op = "overview" /\ ~call.raised) => RowPerYear(call.table, YearsOfSubject)

\* C14 (amended): the overview of a subject has exactly one row per distinct
\* year in which the subject has an Evaluation (without a question filter),
\* or in which an Evaluation of the subject has an observation of a question
\* the filter names (with one), however many terms or duplicate evaluations
\* the year has, in strictly ascending order of 'År'.
C14_RowPerShownYear ==
    (call.op = "overview" /\ ~call.raised) =>
        RowPerYear(call.table,
                   {y \in YearsOfSubject :
                       \/ IsNull(call.question_ids)
                       \/ \E i \in EvaluationsOf(call.subject_id, y), q \in ShownQuestions :
                              ResultsFor(i, q) # {}})

\* C14 witness: two Evaluation rows of the subject in one year, and an
\* overview with the one row of that year.
C14_Witness ==
    /\ call.op = "overview"
    /\ ~call.raised
    /\ Len(Evaluation) = 2
    /\ Evaluation[1].subject_id = call.subject_id
    /\ Evaluation[2].subject_id = call.subject_id
    /\ Evaluation[1].year = Evaluation[2].year
    /\ AarOfRows(call.table) = <<IntV(Evaluation[1].year)>>

\* the text of a CSV cell is a decimal numeral (comma or point), blanks
\* around it ignored / is an integer numeral once its blanks are removed
IsNumeral(text) ==
    LET u == Unsigned(Strip(text))
    IN  \/ u # <<>> /\ AllDigits(u)
        \/ /\ Len(u) > 1
           /\ \E i \in 1..Len(u) :
                 /\ u[i] \in {",", "."}
                 /\ AllDigits(SubSeq(u, 1, i - 1))
                 /\ AllDigits(SubSeq(u, i + 1, Len(u)))

IsIntegerNumeral(text) ==
    LET u == Unsigned(Replace(text, " ", <<>>))
    IN  u # <<>> /\ AllDigits(u)

\* the text of the cell of a CSV row under the column of that name (the
\* empty text when the file has no such column)
TextUnder(src, name) ==
    IF HasColumn(src.header, name)
    THEN src.cells[CHOOSE j \in 1..Len(src.header) : src.header[j] = name]
    ELSE <<>>

\* the column of the header that holds the answered / the invited count
CountColumn(src, patterns) ==
    LET col == FindColumn(src.header, patterns)
    IN  IF IsNull(col) THEN <<>> ELSE col.s

\* Evaluation row e, its EvaluationStats row in stats and its observations
\* in results are what the CSV row src gives: the subject of the row, one
\* observation for each question cell that is a numeral and none for any
\* other cell, one stats row, each count null when its cell is no integer
WrittenFrom(src, e, results, stats) ==
    /\ e.subject_id = Strip(TextUnder(src, Emne))
    /\ \A n \in 1..Len(question_ids) :
          Cardinality({k \in 1..Len(results) :
                          /\ results[k].evaluation_id = e.id
                          /\ results[k].question_id = question_ids[n]})
            = IF IsNumeral(TextUnder(src, CsvColumn(question_ids[n]))) THEN 1 ELSE 0
    /\ Cardinality({k \in 1..Len(stats) : stats[k].evaluation_id = e.id}) = 1
    /\ \A k \in 1..Len(stats) :
          stats[k].evaluation_id = e.id =>
             /\ IsNull(stats[k].answered)
                  <=> ~IsIntegerNumeral(TextUnder(src, CountColumn(src, AnswerPatterns)))
             /\ IsNull(stats[k].invited)
                  <=> ~IsIntegerNumeral(TextUnder(src, CountColumn(src, InvitedPatterns)))

\* C15: a question cell that is no number, or a count cell that is no
\* integer, never makes import_evaluations fail: the import of a readable
\* CSV with an 'Emne' column ends without error unless the store raises,
\* and it writes, for every row of the CSV, the Evaluation row, its one
\* EvaluationStats row (a count that cannot be parsed null) and one
\* observation for every question cell that can be parsed, omitting only
\* the others.
C15_CellFailuresAbsorbed ==
    [][call'.op = "import" =>
          /\ call'.status \in {"ok", "DataError", "KeyError", "StoreError"}
          /\ call'.status = "ok" =>
                /\ Len(Evaluation') = Len(Evaluation) + call'.imported
                /\ Len(source') = Len(Evaluation')
                /\ \A i \in (Len(Evaluation) + 1)..Len(Evaluation') :
                      WrittenFrom(source'[i], Evaluation'[i], EvaluationResult',
                                  EvaluationStats')]_vars

\* C15 witness: a two-row CSV was imported whose row ECN170 has 'x' for
\* question 1.1 and for the answered count: the row's Evaluation is there
\* with the observation of question 2, none of 1.1, and a stats row with a
\* null answered count, next to the Evaluation of the other row.
C15_Witness ==
    /\ call.op = "import"
    /\ call.status = "ok"
    /\ call.imported = 2
    /\ Len(Evaluation) = 2
    /\ Evaluation[2].subject_id = ECN170
    /\ TextUnder(source[2], CsvColumn(<<"1", ".", "1">>)) = <<"x">>
    /\ TextUnder(source[2], AntallSvarCol) = <<"x">>
    /\ ResultsFor(2, <<"1", ".", "1">>) = {}
    /\ ResultsFor(2, <<"2">>) # {}
    /\ \E k \in 1..Len(EvaluationStats) :
          /\ EvaluationStats[k].evaluation_id = Evaluation[2].id
          /\ IsNull(EvaluationStats[k].answered)
    /\ ResultsFor(1, <<"1", ".", "1">>) # {}

\* C16: import_evaluations creates a Subject row for a code only when none
\* exists (no code has two rows), and once a Subject row exists no later
\* call deletes it, moves it or changes its name: a conflict on the code
\* leaves the existing row untouched.
C16_SubjectStable ==
    [][/\ Len(Subject') >= Len(Subject)
       /\ SubSeq(Subject', 1, Len(Subject)) = Subject
       /\ \A i, k \in 1..Len(Subject') : Subject'[i].id = Subject'[k].id => i = k
       /\ \A i \in (Len(Subject) + 1)..Len(Subject') :
             /\ call'.op = "import"
             /\ call'.status = "ok"
             /\ \E k \in (Len(Evaluation) + 1)..Len(Evaluation') :
                   Evaluation'[k].subject_id = Subject'[i].id]_vars

\* C16 witness: a second import of a row of subject AOS120 succeeded, its
\* code written with a leading blank, and the store holds the one Subject
\* row the first import created next to two Evaluation rows of the subject.
C16_Witness ==
    /\ call.op = "import"
    /\ call.status = "ok"
    /\ Len(Evaluation) = 2
    /\ Evaluation[1].subject_id = AOS120
    /\ Evaluation[2].subject_id = AOS120
    /\ TextUnder(source[1], Emne) = AOS120
    /\ TextUnder(source[2], Emne) = <<" ">> \o AOS120
    /\ call.imported = 1
    /\ Subject = <<[id |-> AOS120, name |-> Null]>>

\* row r of the table shows Evaluation number i and nothing else: each
\* question cell holds the value of i for that question (null when i has
\* none), and the counts, when shown, are those of the EvaluationStats row
\* of i
ShowsEvaluation(table, r, i, include_stats) ==
    /\ \A n \in 1..Len(question_ids) :
          \A j \in QuestionColumns(table, question_ids[n]) :
          IF ResultsFor(i, question_ids[n]) = {}
          THEN IsNull(table.rows[r][j])
          ELSE \E k \in ResultsFor(i, question_ids[n]) :
                  table.rows[r][j] = EvaluationResult[k].value
    /\ include_stats =>
          \E k \in 1..Len(EvaluationStats) :
              /\ EvaluationStats[k].evaluation_id = Evaluation[i].id
              /\ CellNamed(table, r, AntallSvarCol) = EvaluationStats[k].answered
              /\ CellNamed(table, r, AntallInvitertCol) = EvaluationStats[k].invited

\* C17: when a subject has several Evaluation rows in one year, the question
\* values and the counts 'Antall svar' and 'Antall invitert' (of which
\* 'Svar%' is computed) in that year's overview row are all taken from one
\* and the same Evaluation of that year; the row never combines values of
\* one evaluation with counts or values of another.
C17_OneEvaluationPerRow ==
    OverviewWithRows =>
        \A y \in YearsOfSubject :
            \A r \in RowsOfYear(call.table, y) :
            \E i \in EvaluationsOf(call.subject_id, y) :
                ShowsEvaluation(call.table, r, i, call.include_stats)

====
